---- MODULE Spec2Model ----
(***************************************************************************)
(* A model of pydantic_xml/model.py: the placement descriptors and their   *)
(* declaration helpers, the type-level settings of BaseXmlModel            *)
(* subclasses, the construction-time build of the serializer graph, its    *)
(* deferral and model_rebuild, and the conversion entry points             *)
(* from_xml / from_xml_tree / to_xml / to_xml_tree.                        *)
(*                                                                         *)
(* Optional values.  A Python Optional[str] is a string, None being the    *)
(* string None below.  Every other optional value (a namespace map, a      *)
(* boolean, a nested descriptor, the cached serializer) is a sequence of   *)
(* length at most one: Nil is Python's None and Some(x) a present x.       *)
(***************************************************************************)
EXTENDS Integers, Sequences, FiniteSets, TLC

VARIABLES
    REGISTER_NS_PREFIXES,  \* config.REGISTER_NS_PREFIXES
    registry,              \* the Namespace Registry: a set of <<uri, prefix>>
    n_desc,                \* how many placement descriptors were constructed
    last_desc,             \* the descriptor constructed last (Nil: none yet)
    last_call,             \* the helper call that constructed it
    classes,               \* the declared types, in order of declaration
    n_graphs,              \* how many serializer graphs were ever created
    result,                \* the outcome of the last operation
    threads                \* the conversion calls in progress, one per thread

vars == <<REGISTER_NS_PREFIXES, registry, n_desc, last_desc, last_call,
          classes, n_graphs, result, threads>>

None == "None"
Nil == <<>>
Some(x) == <<x>>
IsNil(o) == o = <<>>
Val(o) == o[1]

(***************************************************************************)
(* Bounds of the model.                                                    *)
(***************************************************************************)
MaxDescriptors == 3
MaxFields == 2
MaxClasses == 2
MaxSubclasses == 3
MaxThreads == 2

(***************************************************************************)
(* Namespace maps: sets of <<prefix, uri>>.  NsMapX and NsMapY give the    *)
(* same URI two prefixes, so that the order of registrations shows.        *)
(***************************************************************************)
NsMapX == {<<"x", "urn:a">>}
NsMapY == {<<"y", "urn:a">>}
NsMapEmpty == {}

\* Python truthiness of an Optional[NsMap]: None and {} are falsy.
Truthy(nsmap) == ~IsNil(nsmap) /\ Val(nsmap) # {}

\* utils.register_nsmap: every uri of the map gets the map's prefix, the
\* last registration of a uri winning.
register_nsmap(reg, nsmap) ==
    {e \in reg : \A p \in nsmap : p[2] # e[1]} \cup {<<p[2], p[1]>> : p \in nsmap}

\* The registration both descriptor constructors end with.
RegisterIgnoringConfig(flag, reg, nsmap) ==
    IF Truthy(nsmap) THEN register_nsmap(reg, Val(nsmap)) ELSE reg

RegisterOnInit(flag, reg, nsmap) ==
    IF flag /\ Truthy(nsmap) THEN register_nsmap(reg, Val(nsmap)) ELSE reg

(***************************************************************************)
(* Placement descriptors.  cls tells a plain pydantic FieldInfo from an    *)
(* XmlEntityInfo and a ComputedXmlEntityInfo.                              *)
(***************************************************************************)
ATTRIBUTE == "attribute"
ELEMENT == "element"
WRAPPED == "wrapped"

\* pd.Field(alias=...): a field descriptor that carries no xml placement.
FieldInfo(alias) ==
    [cls |-> "FieldInfo", location |-> None, path |-> None, ns |-> None,
     nsmap |-> Nil, wrapped |-> Nil, alias |-> alias,
     serialization_alias |-> alias, validation_alias |-> alias]

\* The keyword arguments a helper forwards: pydantic's alias, and the two
\* keywords of XmlEntityInfo.__init__ that attr and element do not name
\* themselves and therefore pass through **kwargs.
NoKwargs == [alias |-> None, serialization_alias |-> None,
             validation_alias |-> None, nsmap |-> Nil, wrapped |-> Nil]

\* Lines 136-139: the wrapped entity's own pydantic arguments replace the
\* keyword arguments given.
CopyWrappedSlots(entity, kwargs) ==
    IF IsNil(entity) THEN kwargs
    ELSE [kwargs EXCEPT !.alias = Val(entity).alias,
                        !.serialization_alias = Val(entity).serialization_alias,
                        !.validation_alias = Val(entity).validation_alias]

\* Line 152: only an XmlEntityInfo is kept as the nested descriptor.
KeepWrapped(location, entity) ==
    IF ~IsNil(entity) /\ Val(entity).cls = "XmlEntityInfo" THEN entity ELSE Nil

XmlEntityInfo(location, path, ns, nsmap, entity, kwargs) ==
    LET kw == CopyWrappedSlots(entity, kwargs) IN
    [cls |-> "XmlEntityInfo", location |-> location, path |-> path, ns |-> ns,
     nsmap |-> nsmap, wrapped |-> KeepWrapped(location, entity),
     alias |-> kw.alias,
     serialization_alias |->
         IF kw.serialization_alias = None THEN kw.alias ELSE kw.serialization_alias,
     validation_alias |->
         IF kw.validation_alias = None THEN kw.alias ELSE kw.validation_alias]

attr(name, ns, kwargs) ==
    XmlEntityInfo(ATTRIBUTE, name, ns, kwargs.nsmap, kwargs.wrapped, kwargs)

element(tag, ns, nsmap, kwargs) ==
    XmlEntityInfo(ELEMENT, tag, ns, nsmap, kwargs.wrapped, kwargs)

\* wrapped() as a slip would have it: the location of element().
wrapped_as_element(path, entity, ns, nsmap, kwargs) ==
    XmlEntityInfo(ELEMENT, path, ns, nsmap, entity, kwargs)

wrapped(path, entity, ns, nsmap, kwargs) ==
    XmlEntityInfo(WRAPPED, path, ns, nsmap, entity, kwargs)

computed_entity(location, path, ns, nsmap, kwargs) ==
    [cls |-> "ComputedXmlEntityInfo", location |-> location, path |-> path,
     ns |-> ns, nsmap |-> nsmap, wrapped |-> Nil, alias |-> kwargs.alias,
     serialization_alias |-> None, validation_alias |-> None]

computed_attr(name, ns, kwargs) ==
    computed_entity(ATTRIBUTE, name, ns, kwargs.nsmap, kwargs)

computed_element(tag, ns, nsmap, kwargs) ==
    computed_entity(ELEMENT, tag, ns, nsmap, kwargs)

(***************************************************************************)
(* Declaring fields: one action per declaration helper.  The arguments are *)
(* drawn from a few profiles; the entity a helper may nest is nothing, a   *)
(* plain pydantic field or the descriptor constructed last.                *)
(***************************************************************************)
Profiles == {[path |-> None, ns |-> None, alias |-> None],
             [path |-> "p", ns |-> "n", alias |-> "al"]}
NsMapArgs == {Nil, Some(NsMapEmpty), Some(NsMapX)}
Entities == {Nil, Some(FieldInfo("fa"))}
            \cup (IF ~IsNil(last_desc) /\ Val(last_desc).cls = "XmlEntityInfo"
                  THEN {last_desc} ELSE {})

Kwargs(alias, nsmap, entity) ==
    [NoKwargs EXCEPT !.alias = alias, !.nsmap = nsmap, !.wrapped = entity]

\* The state change every helper call makes: the descriptor is constructed
\* (lines 147-152, 62-69) and its namespace map registered (154-155, 44-45).
Construct(helper, d, smuggled) ==
    /\ n_desc < MaxDescriptors
    /\ n_desc' = n_desc + 1
    /\ last_desc' = Some(d)
    /\ last_call' = [helper |-> helper, kw_wrapped |-> smuggled]
    /\ registry' = RegisterOnInit(REGISTER_NS_PREFIXES, registry, d.nsmap)
    /\ UNCHANGED <<REGISTER_NS_PREFIXES, classes, n_graphs, result, threads>>

DeclareAttr ==
    \E pr \in Profiles, m \in NsMapArgs, e \in Entities :
        Construct("attr", attr(pr.path, pr.ns, Kwargs(pr.alias, m, e)), ~IsNil(e))

DeclareElement ==
    \E pr \in Profiles, m \in NsMapArgs, e \in Entities :
        Construct("element", element(pr.path, pr.ns, m, Kwargs(pr.alias, Nil, e)),
                  ~IsNil(e))

DeclareWrapped ==
    \E pr \in Profiles, m \in NsMapArgs, e \in Entities :
        Construct("wrapped",
                  wrapped("w", e, pr.ns, m, Kwargs(pr.alias, Nil, Nil)), FALSE)

DeclareComputedAttr ==
    \E pr \in Profiles, m \in NsMapArgs :
        Construct("computed_attr",
                  computed_attr(pr.path, pr.ns, Kwargs(pr.alias, m, Nil)), FALSE)

DeclareComputedElement ==
    \E pr \in Profiles, m \in NsMapArgs :
        Construct("computed_element",
                  computed_element(pr.path, pr.ns, m, Kwargs(pr.alias, Nil, Nil)),
                  FALSE)

\* The application sets the process configuration flag.
SetRegisterNsPrefixes ==
    /\ REGISTER_NS_PREFIXES' = ~REGISTER_NS_PREFIXES
    /\ UNCHANGED <<registry, n_desc, last_desc, last_call, classes,
                   n_graphs, result, threads>>

(***************************************************************************)
(* XML trees.  An element is a record: its qualified tag, its attributes   *)
(* (a set of <<qualified name, text>>, one per name), its text (None when  *)
(* it has none), its children in document order and the namespace map it   *)
(* was created with.                                                       *)
(***************************************************************************)
QName(ns, tag) == [ns |-> ns, tag |-> tag]

Elem(tag, nsmap) ==
    [tag |-> tag, attrs |-> {}, text |-> None, children |-> <<>>, nsmap |-> nsmap]

SetAttr(el, name, v) ==
    [el EXCEPT !.attrs = {a \in @ : a[1] # name} \cup {<<name, v>>}]

AddChild(el, child) == [el EXCEPT !.children = Append(@, child)]

IsEmpty(el) == el.attrs = {} /\ el.children = <<>> /\ el.text = None

(***************************************************************************)
(* The native library's text form of a tree, etree.tostring, and its       *)
(* parser, etree.fromstring.  A text is a sequence of tokens: an opening   *)
(* tag with its attributes, a run of text, a closing tag.                  *)
(***************************************************************************)
RECURSIVE tostring(_)
RECURSIVE ChildrenText(_, _)
ChildrenText(kids, i) ==
    IF i > Len(kids) THEN <<>> ELSE tostring(kids[i]) \o ChildrenText(kids, i + 1)

tostring(el) ==
    <<[t |-> "open", tag |-> el.tag, attrs |-> el.attrs, nsmap |-> el.nsmap]>>
    \o (IF el.text = None THEN <<>> ELSE <<[t |-> "text", text |-> el.text]>>)
    \o ChildrenText(el.children, 1)
    \o <<[t |-> "close", tag |-> el.tag]>>

XMLSyntaxError == "XMLSyntaxError"

\* The parser keeps the stack of the elements still open; it answers Nil
\* for a text that is not one well-formed element.
RECURSIVE ParseFrom(_, _, _)
ParseFrom(toks, i, stack) ==
    IF i > Len(toks) THEN Nil
    ELSE LET k == toks[i] IN
         IF k.t = "open"
         THEN ParseFrom(toks, i + 1, Append(stack, [Elem(k.tag, k.nsmap)
                                                       EXCEPT !.attrs = k.attrs]))
         ELSE IF stack = <<>> THEN Nil
         ELSE LET top == stack[Len(stack)]
                  rest == SubSeq(stack, 1, Len(stack) - 1) IN
              IF k.t = "text"
              THEN IF top.children # <<>> \/ top.text # None THEN Nil
                   ELSE ParseFrom(toks, i + 1,
                                  Append(rest, [top EXCEPT !.text = k.text]))
              ELSE IF k.tag # top.tag THEN Nil
              ELSE IF rest = <<>>
                   THEN (IF i = Len(toks) THEN Some(top) ELSE Nil)
                   ELSE ParseFrom(toks, i + 1,
                                  Append(SubSeq(rest, 1, Len(rest) - 1),
                                         AddChild(rest[Len(rest)], top)))

fromstring(source) == ParseFrom(source, 1, <<>>)

(***************************************************************************)
(* The Serializer Graph and the Schema Compiler (pydantic_xml.serializers) *)
(* as the specification describes them.  A schema is a sequence of fields  *)
(* [name, desc]: desc is the field's placement descriptor, Nil for a field *)
(* declared without one.  Every field is an optional text, None by         *)
(* default.                                                                *)
(***************************************************************************)
STRICT == "strict"
ORDERED == "ordered"
MISSING == "MISSING"
AmbiguousChild == "AmbiguousChild"

\* A field without a descriptor is an element named after the field.
RECURSIVE Node(_, _, _)
Node(desc, fname, ctx) ==
    IF IsNil(desc)
    THEN [kind |-> "TextElement", name |-> QName(None, fname), inner |-> Nil]
    ELSE LET d == Val(desc)
             path == IF d.path = None THEN fname ELSE d.path IN
         CASE d.location = ATTRIBUTE ->
                [kind |-> "Attribute",
                 name |-> QName(IF d.ns # None THEN d.ns
                                ELSE IF ctx.namespaced_attrs THEN ctx.ns ELSE None,
                                path),
                 inner |-> Nil]
           [] d.location = ELEMENT ->
                [kind |-> "TextElement", name |-> QName(d.ns, path), inner |-> Nil]
           [] OTHER ->
                [kind |-> "Wrapped", name |-> QName(d.ns, path),
                 inner |-> Some(Node(d.wrapped, fname, ctx))]

\* Serializer.parse_core_schema: the root node of a type, named by the
\* type's own placement (its tag, defaulting to the type's name).
parse_core_schema(fields, ctx) ==
    [oid |-> ctx.oid,
     model |-> ctx.model_name,
     element_name |-> QName(ctx.entity_info.ns,
                            IF ctx.entity_info.path = None THEN ctx.model_name
                            ELSE ctx.entity_info.path),
     nsmap |-> ctx.entity_info.nsmap,
     search_mode |-> ctx.search_mode,
     fields |-> [i \in DOMAIN fields |-> fields[i].name],
     nodes |-> [i \in DOMAIN fields |-> Node(fields[i].desc, fields[i].name, ctx)]]

\* One node's contribution to the element of its owner.
RECURSIVE SerializeNode(_, _, _, _)
SerializeNode(node, v, el, skip_empty) ==
    CASE node.kind = "Attribute" ->
           IF v = None THEN el ELSE SetAttr(el, node.name, v)
      [] node.kind = "TextElement" ->
           IF v = None
           THEN (IF skip_empty THEN el ELSE AddChild(el, Elem(node.name, Nil)))
           ELSE AddChild(el, [Elem(node.name, Nil) EXCEPT !.text = v])
      [] OTHER ->
           LET w == SerializeNode(Val(node.inner), v, Elem(node.name, Nil), skip_empty)
           IN IF skip_empty /\ IsEmpty(w) THEN el ELSE AddChild(el, w)

RECURSIVE SerializeFrom(_, _, _, _, _)
SerializeFrom(graph, values, el, skip_empty, i) ==
    IF i > Len(graph.nodes) THEN el
    ELSE SerializeFrom(graph, values,
                       SerializeNode(graph.nodes[i], values[graph.fields[i]], el,
                                     skip_empty),
                       skip_empty, i + 1)

\* BaseModelSerializer.serialize: the fields in declaration order.
serialize(graph, root, values, skip_empty) ==
    SerializeFrom(graph, values, root, skip_empty, 1)

Matching(el, name) == SelectSeq(el.children, LAMBDA ch : ch.tag = name)

\* One node's value read from the element of its owner, MISSING when the
\* element holds nothing for it.
RECURSIVE DeserializeNode(_, _, _)
DeserializeNode(node, el, mode) ==
    IF node.kind = "Attribute"
    THEN (IF \E a \in el.attrs : a[1] = node.name
          THEN (CHOOSE a \in el.attrs : a[1] = node.name)[2]
          ELSE MISSING)
    ELSE LET found == Matching(el, node.name) IN
         IF found = <<>> THEN MISSING
         ELSE IF mode = STRICT /\ Len(found) > 1 THEN AmbiguousChild
         ELSE IF node.kind = "TextElement" THEN found[1].text
         ELSE DeserializeNode(Val(node.inner), found[1], mode)

\* BaseModelSerializer.deserialize: every field's value, then the validation
\* layer's construction, which gives a MISSING field its default.
deserialize(graph, el) ==
    LET raw == [i \in DOMAIN graph.nodes |->
                    DeserializeNode(graph.nodes[i], el, graph.search_mode)] IN
    IF \E i \in DOMAIN raw : raw[i] = AmbiguousChild
    THEN [error |-> AmbiguousChild, value |-> Nil]
    ELSE [error |-> None,
          value |-> Some([model |-> graph.model,
                          values |-> [f \in {graph.fields[i] : i \in DOMAIN raw} |->
                               LET i == CHOOSE j \in DOMAIN raw : graph.fields[j] = f
                               IN IF raw[i] = MISSING THEN None ELSE raw[i]]])]

(***************************************************************************)
(* Types.  classes[i] is the i-th type declared; parent 0 is BaseXmlModel, *)
(* which has no settings of its own and no serializer.  A type records the *)
(* keyword arguments of its declaration (args), its six settings, what the *)
(* validation layer knows of it (root_model: __pydantic_root_model__,      *)
(* parameters: __pydantic_generic_metadata__['parameters'] is not empty,   *)
(* root_annotation: the annotation of the field root, complete:            *)
(* __pydantic_complete__), whether its forward references can be resolved  *)
(* by now (fwd_defined), its schema, and xml_serializer, its graph.        *)
(***************************************************************************)
NoArgs == [tag |-> None, ns |-> None, nsmap |-> Nil, ns_attrs |-> Nil,
           skip_empty |-> Nil, search_mode |-> None]

ClassNames == <<"RootXmlModel", "A", "B", "C", "D", "E">>

\* getattr(cls, key, default) while cls has no value of its own yet: the
\* nearest base's value, BaseXmlModel having none.
ParentSettings(parent) ==
    IF parent = 0
    THEN [xml_tag |-> None, xml_ns |-> None, xml_nsmap |-> Nil,
          xml_ns_attrs |-> FALSE, xml_skip_empty |-> Nil,
          xml_search_mode |-> STRICT]
    ELSE [xml_tag |-> classes[parent].xml_tag, xml_ns |-> classes[parent].xml_ns,
          xml_nsmap |-> classes[parent].xml_nsmap,
          xml_ns_attrs |-> classes[parent].xml_ns_attrs,
          xml_skip_empty |-> classes[parent].xml_skip_empty,
          xml_search_mode |-> classes[parent].xml_search_mode]

\* __init_subclass__ as a slip would have it: "x or getattr(...)", which
\* takes an explicit False or {} for no value.
init_subclass_truthy(parent, args) ==
    LET inh == ParentSettings(parent) IN
    [xml_tag |-> IF args.tag # None THEN args.tag ELSE inh.xml_tag,
     xml_ns |-> IF args.ns # None THEN args.ns ELSE inh.xml_ns,
     xml_nsmap |-> IF Truthy(args.nsmap) THEN args.nsmap ELSE inh.xml_nsmap,
     xml_ns_attrs |-> IF ~IsNil(args.ns_attrs) /\ Val(args.ns_attrs) THEN TRUE
                      ELSE inh.xml_ns_attrs,
     xml_skip_empty |-> IF ~IsNil(args.skip_empty) /\ Val(args.skip_empty)
                        THEN args.skip_empty ELSE inh.xml_skip_empty,
     xml_search_mode |-> IF args.search_mode # None THEN args.search_mode
                         ELSE inh.xml_search_mode]

init_subclass(parent, args) ==
    LET inh == ParentSettings(parent) IN
    [xml_tag |-> IF args.tag # None THEN args.tag ELSE inh.xml_tag,
     xml_ns |-> IF args.ns # None THEN args.ns ELSE inh.xml_ns,
     xml_nsmap |-> IF ~IsNil(args.nsmap) THEN args.nsmap ELSE inh.xml_nsmap,
     xml_ns_attrs |-> IF ~IsNil(args.ns_attrs) THEN Val(args.ns_attrs)
                      ELSE inh.xml_ns_attrs,
     xml_skip_empty |-> IF ~IsNil(args.skip_empty) THEN args.skip_empty
                        ELSE inh.xml_skip_empty,
     xml_search_mode |-> IF args.search_mode # None THEN args.search_mode
                         ELSE inh.xml_search_mode]

NewClass(name, parent, args, st, shape) ==
    [name |-> name, parent |-> parent, args |-> args,
     xml_tag |-> st.xml_tag, xml_ns |-> st.xml_ns, xml_nsmap |-> st.xml_nsmap,
     xml_ns_attrs |-> st.xml_ns_attrs, xml_skip_empty |-> st.xml_skip_empty,
     xml_search_mode |-> st.xml_search_mode,
     root_model |-> shape.root_model, parameters |-> shape.parameters,
     root_annotation |-> shape.root_annotation,
     fwd_refs |-> shape.fwd_refs, fwd_defined |-> FALSE,
     complete |-> ~shape.fwd_refs,
     fields |-> shape.fields, attr_model |-> shape.attr_model,
     xml_serializer |-> Nil]

PlainShape == [root_model |-> FALSE, parameters |-> FALSE, root_annotation |-> None,
               fwd_refs |-> FALSE, attr_model |-> FALSE, fields |-> <<>>]

\* RootXmlModel itself: declared abstract, generic in RootModelRootType.
RootXmlModel ==
    NewClass("RootXmlModel", 0, NoArgs,
             [xml_tag |-> None, xml_ns |-> None, xml_nsmap |-> Nil,
              xml_ns_attrs |-> FALSE, xml_skip_empty |-> Nil,
              xml_search_mode |-> STRICT],
             [PlainShape EXCEPT !.root_model = TRUE, !.parameters = TRUE,
                                !.root_annotation = "TypeVar"])

ModelError == "ModelError"

\* The deferral test of __build_serializer__, lines 276-284: TRUE when the
\* build stops with no graph because generic parameters are open.
DeferredForGenerics(c) ==
    IF c.root_model
    THEN c.parameters /\ c.root_annotation \in {"missing", "TypeVar"}
    ELSE c.parameters

\* __build_serializer__ of the type c, with the flag and the registry as
\* they are and oid the identity of the graph it may create.  It answers
\* the type's graph afterwards, the registry afterwards, the error raised
\* and whether the schema compiler was called.
build_serializer(c, flag, reg, oid) ==
    IF c.name = "RootXmlModel"
    THEN [xml_serializer |-> c.xml_serializer, registry |-> reg, error |-> None,
          compiled |-> FALSE]
    ELSE IF DeferredForGenerics(c)
    THEN [xml_serializer |-> Nil, registry |-> reg, error |-> None,
          compiled |-> FALSE]
    ELSE LET reg1 == RegisterOnInit(flag, reg, c.xml_nsmap) IN
         IF c.complete
         THEN LET info == XmlEntityInfo(ELEMENT, c.xml_tag, c.xml_ns, c.xml_nsmap,
                                        Nil, NoKwargs)
                  reg2 == RegisterOnInit(flag, reg1, info.nsmap)
              IN IF c.attr_model
                 THEN [xml_serializer |-> c.xml_serializer, registry |-> reg2,
                       error |-> ModelError, compiled |-> TRUE]
                 ELSE [xml_serializer |->
                           Some(parse_core_schema(c.fields,
                                    [oid |-> oid, model_name |-> c.name,
                                     namespaced_attrs |-> c.xml_ns_attrs,
                                     ns |-> c.xml_ns,
                                     search_mode |-> c.xml_search_mode,
                                     entity_info |-> info])),
                       registry |-> reg2, error |-> None, compiled |-> TRUE]
         ELSE [xml_serializer |-> Nil, registry |-> reg1, error |-> None,
               compiled |-> FALSE]

(***************************************************************************)
(* The conversion entry points, as functions of the type c: what the call  *)
(* raises (error), what it returns (value) and which collaborators it      *)
(* called on the way, in order (events).                                   *)
(***************************************************************************)
Out(events, error, value) == [events |-> events, error |-> error, value |-> value]

\* XmlElement.to_native: the native tree of an element.  A native element
\* answers its ancestors' namespace map as its own.
RECURSIVE to_native(_, _)
to_native(el, nsmap) ==
    LET own == IF IsNil(el.nsmap) THEN nsmap ELSE el.nsmap IN
    [el EXCEPT !.nsmap = own,
               !.children = [i \in DOMAIN el.children |->
                                 to_native(el.children[i], own)]]

\* XmlElement.from_native: the element of a native tree.
RECURSIVE from_native(_)
from_native(root) ==
    [tag |-> root.tag, attrs |-> root.attrs, text |-> root.text,
     children |-> [i \in DOMAIN root.children |-> from_native(root.children[i])],
     nsmap |-> root.nsmap]

\* pydantic_core.to_jsonable_python(self, by_alias=False): the plain value
\* map of a record, keyed by field name.
to_jsonable_python(r) == r.values

\* from_xml_tree as a slip would have it: the local tag compared alone.
from_xml_tree_local_tag(c, root) ==
    IF IsNil(c.xml_serializer) THEN Out(<<>>, "AssertionError", Nil)
    ELSE LET ser == Val(c.xml_serializer) IN
         IF root.tag.tag = ser.element_name.tag
         THEN LET d == deserialize(ser, from_native(root)) IN
              Out(<<"XmlElement.from_native", "deserialize">>, d.error, d.value)
         ELSE Out(<<>>, "ParsingError", Nil)

\* from_xml_tree as a slip would have it: the assertion left out, so that
\* the absent graph is dereferenced by the deserializer.
from_xml_tree_unasserted(c, root) ==
    IF IsNil(c.xml_serializer)
    THEN Out(<<"XmlElement.from_native", "deserialize">>, "AttributeError", Nil)
    ELSE LET ser == Val(c.xml_serializer) IN
         IF root.tag = ser.element_name
         THEN LET d == deserialize(ser, from_native(root)) IN
              Out(<<"XmlElement.from_native", "deserialize">>, d.error, d.value)
         ELSE Out(<<>>, "ParsingError", Nil)

from_xml_tree(c, root) ==
    IF IsNil(c.xml_serializer) THEN Out(<<>>, "AssertionError", Nil)
    ELSE LET ser == Val(c.xml_serializer) IN
         IF root.tag = ser.element_name
         THEN LET d == deserialize(ser, from_native(root)) IN
              Out(<<"XmlElement.from_native", "deserialize">>, d.error, d.value)
         ELSE Out(<<>>, "ParsingError", Nil)

from_xml(c, source) ==
    LET parsed == fromstring(source) IN
    IF IsNil(parsed) THEN Out(<<"etree.fromstring">>, XMLSyntaxError, Nil)
    ELSE LET o == from_xml_tree(c, Val(parsed)) IN
         [o EXCEPT !.events = <<"etree.fromstring">> \o @]

\* to_xml_tree as a slip would have it: the root named by the type's tag
\* setting instead of the graph's element name.
to_xml_tree_by_setting(c, r, skip_empty) ==
    IF IsNil(c.xml_serializer) THEN Out(<<>>, "AssertionError", Nil)
    ELSE LET ser == Val(c.xml_serializer)
             root == Elem(QName(None, c.xml_tag), ser.nsmap)
             el == serialize(ser, root, to_jsonable_python(r), skip_empty) IN
         Out(<<"XmlElement", "serialize", "XmlElement.to_native">>, None,
             Some(to_native(el, Nil)))

to_xml_tree(c, r, skip_empty) ==
    IF IsNil(c.xml_serializer) THEN Out(<<>>, "AssertionError", Nil)
    ELSE LET ser == Val(c.xml_serializer)
             root == Elem(ser.element_name, ser.nsmap)
             el == serialize(ser, root, to_jsonable_python(r), skip_empty) IN
         Out(<<"XmlElement", "serialize", "XmlElement.to_native">>, None,
             Some(to_native(el, Nil)))

to_xml(c, r, skip_empty) ==
    LET o == to_xml_tree(c, r, skip_empty) IN
    IF o.error # None THEN o
    ELSE Out(Append(o.events, "etree.tostring"), None, Some(tostring(Val(o.value))))

(***************************************************************************)
(* The operations on types.  result records the last one: its name, the    *)
(* type, its argument, what it raised and returned, what it called, and    *)
(* for a conversion of a tree or text that the previous call returned, the *)
(* record that was serialized (src).                                       *)
(***************************************************************************)
Res(op, cls, arg, out, src) ==
    [op |-> op, cls |-> cls, arg |-> arg, events |-> out.events,
     error |-> out.error, value |-> out.value, src |-> src]

Values == {None, "1"}

Records(c) ==
    LET names == {c.fields[i].name : i \in DOMAIN c.fields} IN
    {[model |-> c.name, values |-> f] : f \in [names -> Values]}

\* A type statement: the metaclass creates the type, __init_subclass__ sets
\* its settings and __build_serializer__ runs (lines 215-221).  A build that
\* raises leaves no type behind, but its registrations stay.
DeclareClass(limit, argset, shapes) ==
    \E parent \in {0} \cup DOMAIN classes, args \in argset, shape \in shapes :
        /\ Len(classes) < limit
        /\ shape.root_model = (parent # 0 /\ classes[parent].root_model)
        /\ LET i == Len(classes) + 1
               c0 == NewClass(ClassNames[i], parent, args,
                              init_subclass(parent, args), shape)
               b == build_serializer(c0, REGISTER_NS_PREFIXES, registry,
                                     n_graphs + 1)
           IN /\ classes' = IF b.error = None
                            THEN Append(classes,
                                        [c0 EXCEPT !.xml_serializer = b.xml_serializer])
                            ELSE classes
              /\ registry' = b.registry
              /\ n_graphs' = IF b.error = None /\ ~IsNil(b.xml_serializer)
                             THEN n_graphs + 1 ELSE n_graphs
              /\ result' = Res("declare", i, args,
                               Out(IF b.compiled THEN <<"parse_core_schema">>
                                   ELSE <<>>, b.error, Nil), Nil)
        /\ UNCHANGED <<REGISTER_NS_PREFIXES, n_desc, last_desc, last_call, threads>>

\* The application defines the types a type's forward references name.
DefineForwardTargets ==
    \E i \in DOMAIN classes :
        /\ classes[i].fwd_refs /\ ~classes[i].fwd_defined
        /\ classes' = [classes EXCEPT ![i].fwd_defined = TRUE]
        /\ UNCHANGED <<REGISTER_NS_PREFIXES, registry, n_desc, last_desc,
                       last_call, n_graphs, result, threads>>

\* pydantic's BaseModel.model_rebuild (line 311): nothing for a complete
\* type unless forced; otherwise the forward references are resolved again,
\* and one that still names nothing raises unless raise_errors is off.
PydanticRebuild(c, kwargs) ==
    IF c.complete /\ ~kwargs.force THEN [complete |-> TRUE, error |-> None]
    ELSE IF ~c.fwd_refs \/ c.fwd_defined THEN [complete |-> TRUE, error |-> None]
    ELSE [complete |-> FALSE,
          error |-> IF kwargs.raise_errors THEN "PydanticUndefinedAnnotation"
                    ELSE None]

\* Lines 313-314 as a slip would have it: every rebuild of a complete type
\* builds its serializer again.
NeedsBuildAlways(c) == c.complete

\* Lines 313: the serializer is built only while the type has none.
NeedsBuild(c) == IsNil(c.xml_serializer) /\ c.complete

RebuildKwargs == {[raise_errors |-> TRUE, force |-> FALSE],
                  [raise_errors |-> FALSE, force |-> FALSE],
                  [raise_errors |-> TRUE, force |-> TRUE]}

ModelRebuild ==
    \E i \in DOMAIN classes, kwargs \in RebuildKwargs :
        LET pr == PydanticRebuild(classes[i], kwargs)
            c1 == [classes[i] EXCEPT !.complete = pr.complete]
            b == IF pr.error = None /\ NeedsBuild(c1)
                 THEN build_serializer(c1, REGISTER_NS_PREFIXES, registry,
                                       n_graphs + 1)
                 ELSE [xml_serializer |-> c1.xml_serializer, registry |-> registry,
                       error |-> pr.error, compiled |-> FALSE]
            created == b.compiled /\ b.error = None
        IN /\ classes' = [classes EXCEPT ![i] =
                              [c1 EXCEPT !.xml_serializer = b.xml_serializer]]
           /\ registry' = b.registry
           /\ n_graphs' = IF created THEN n_graphs + 1 ELSE n_graphs
           /\ result' = Res("model_rebuild", i, kwargs,
                            Out(IF b.compiled THEN <<"parse_core_schema">> ELSE <<>>,
                                b.error, Nil),
                            Some([absent |-> IsNil(classes[i].xml_serializer)]))
           /\ UNCHANGED <<REGISTER_NS_PREFIXES, n_desc, last_desc, last_call,
                          threads>>

\* Trees no type here serializes to: a foreign tag, and the type's own tag
\* in a foreign namespace.
ForeignTrees(c) ==
    {Elem(QName(None, "Other"), Nil),
     Elem(QName("urn:other", IF c.xml_tag = None THEN c.name ELSE c.xml_tag), Nil)}

\* The tree the previous call returned, if it returned one.
ReturnedTrees ==
    IF result.op = "to_xml_tree" /\ result.error = None THEN {Val(result.value)}
    ELSE {}

ReturnedTexts ==
    IF result.op = "to_xml" /\ result.error = None THEN {Val(result.value)}
    ELSE {}

\* The record a returned tree or text was serialized from.
Src(arg, returned) ==
    IF arg \in returned
    THEN Some([cls |-> result.cls, rec |-> result.arg.rec,
               skip_empty |-> result.arg.skip_empty])
    ELSE Nil

Untouched == <<REGISTER_NS_PREFIXES, registry, n_desc, last_desc, last_call,
               classes, n_graphs, threads>>

FromXmlTree ==
    \E i \in DOMAIN classes :
        \E root \in ForeignTrees(classes[i]) \cup ReturnedTrees :
            /\ result' = Res("from_xml_tree", i, root,
                             from_xml_tree(classes[i], root),
                             Src(root, ReturnedTrees))
            /\ UNCHANGED Untouched

\* A text that is no document: the tree's text with its last tag cut off.
Truncated(text) == SubSeq(text, 1, Len(text) - 1)

FromXml ==
    \E i \in DOMAIN classes :
        \E source \in {tostring(t) : t \in ForeignTrees(classes[i])}
                      \cup {Truncated(tostring(Elem(QName(None, "Other"), Nil)))}
                      \cup ReturnedTexts :
            /\ result' = Res("from_xml", i, source, from_xml(classes[i], source),
                             Src(source, ReturnedTexts))
            /\ UNCHANGED Untouched

ToXmlTree ==
    \E i \in DOMAIN classes, skip_empty \in BOOLEAN :
        \E r \in Records(classes[i]) :
            /\ result' = Res("to_xml_tree", i, [rec |-> r, skip_empty |-> skip_empty],
                             to_xml_tree(classes[i], r, skip_empty), Nil)
            /\ UNCHANGED Untouched

ToXml ==
    \E i \in DOMAIN classes, skip_empty \in BOOLEAN :
        \E r \in Records(classes[i]) :
            /\ result' = Res("to_xml", i, [rec |-> r, skip_empty |-> skip_empty],
                             to_xml(classes[i], r, skip_empty), Nil)
            /\ UNCHANGED Untouched

NoCall == [helper |-> None, kw_wrapped |-> FALSE]
NoResult == Res(None, 0, Nil, Out(<<>>, None, Nil), Nil)

Init ==
    /\ REGISTER_NS_PREFIXES = TRUE
    /\ registry = {}
    /\ n_desc = 0
    /\ last_desc = Nil
    /\ last_call = NoCall
    /\ classes = <<RootXmlModel>>
    /\ n_graphs = 0
    /\ result = NoResult
    /\ threads = <<>>

NextDesc ==
    \/ DeclareAttr
    \/ DeclareElement
    \/ DeclareWrapped
    \/ DeclareComputedAttr
    \/ DeclareComputedElement
    \/ SetRegisterNsPrefixes

SpecDesc == Init /\ [][NextDesc]_vars

(***************************************************************************)
(* The life of types: declaration, deferral, rebuild and conversion.       *)
(***************************************************************************)
LifeArgs == {NoArgs, [NoArgs EXCEPT !.tag = "Root", !.nsmap = Some(NsMapX)]}

Shape(root_model, parameters, root_annotation, fwd_refs, attr_model) ==
    [root_model |-> root_model, parameters |-> parameters,
     root_annotation |-> root_annotation, fwd_refs |-> fwd_refs,
     attr_model |-> attr_model, fields |-> <<>>]

\* Ordinary types: generic or not, with or without forward references, and
\* one whose schema the compiler rejects (a nested record placed in an
\* attribute).  Root types: the annotation of root is a type variable,
\* holds one, holds none, or is not there.
LifeShapes ==
    {Shape(FALSE, p, None, f, FALSE) : p \in BOOLEAN, f \in BOOLEAN}
    \cup {Shape(FALSE, FALSE, None, f, TRUE) : f \in BOOLEAN}
    \cup {Shape(TRUE, TRUE, a, f, FALSE) :
              a \in {"TypeVar", "holds TypeVar", "concrete", "missing"},
              f \in BOOLEAN}
    \cup {Shape(TRUE, FALSE, "concrete", f, FALSE) : f \in BOOLEAN}

Next ==
    \/ DeclareClass(MaxClasses, LifeArgs, LifeShapes)
    \/ DefineForwardTargets
    \/ ModelRebuild
    \/ SetRegisterNsPrefixes

Spec == Init /\ [][Next]_vars

(***************************************************************************)
(* Inheritance of the type-level settings: chains of ordinary, complete    *)
(* types, each declared with one of a few sets of keyword arguments.       *)
(***************************************************************************)
SettingsArgs ==
    {NoArgs,
     [NoArgs EXCEPT !.tag = "T", !.ns = "urn:n", !.ns_attrs = Some(TRUE),
                    !.skip_empty = Some(TRUE)],
     [NoArgs EXCEPT !.tag = "U", !.ns_attrs = Some(FALSE),
                    !.skip_empty = Some(FALSE), !.search_mode = STRICT],
     [NoArgs EXCEPT !.nsmap = Some(NsMapX)],
     [NoArgs EXCEPT !.nsmap = Some(NsMapEmpty)],
     [NoArgs EXCEPT !.search_mode = ORDERED],
     [NoArgs EXCEPT !.ns = "urn:m"],
     [NoArgs EXCEPT !.skip_empty = Some(TRUE)]}

NextSettings ==
    \/ DeclareClass(MaxSubclasses + 1, SettingsArgs, {PlainShape})

SpecSettings == Init /\ [][NextSettings]_vars

(***************************************************************************)
(* Conversion: one type with a schema of up to MaxFields fields, declared  *)
(* complete, generic or with forward references, and the four entry points *)
(* applied to its records, to trees and texts they returned, to foreign    *)
(* ones and to a malformed text.                                           *)
(***************************************************************************)
FieldNames == <<"a", "b", "c", "d">>

FieldDescs ==
    {Nil,
     Some(attr("x", None, NoKwargs)),
     Some(element("x", None, Nil, NoKwargs)),
     Some(wrapped("w", Some(attr("x", None, NoKwargs)), None, Nil, NoKwargs)),
     Some(wrapped("v", Some(wrapped("w", Some(attr("x", None, NoKwargs)), None,
                                    Nil, NoKwargs)),
                  None, Nil, NoKwargs))}

Schemas ==
    UNION {{[i \in 1..k |-> [name |-> FieldNames[i], desc |-> f[i]]] :
                f \in [1..k -> FieldDescs]} : k \in 0..MaxFields}

ConvArgs == {NoArgs,
             [NoArgs EXCEPT !.tag = "Root", !.ns = "urn:a",
                            !.nsmap = Some(NsMapX)],
             [NoArgs EXCEPT !.search_mode = ORDERED]}

ConvShapes ==
    {[PlainShape EXCEPT !.fields = sc] : sc \in Schemas}
    \cup {[PlainShape EXCEPT !.fwd_refs = TRUE], [PlainShape EXCEPT !.parameters = TRUE]}

NextConv ==
    \/ DeclareClass(Len(<<RootXmlModel>>) + 1, ConvArgs, ConvShapes)
    \/ DefineForwardTargets
    \/ ModelRebuild
    \/ FromXmlTree
    \/ FromXml
    \/ ToXmlTree
    \/ ToXml

SpecConv == Init /\ [][NextConv]_vars

(***************************************************************************)
(* Concurrent conversion.  Each thread runs one entry point at a time, a   *)
(* statement per step, on a type declared beforehand.  What a call works   *)
(* on (the parsed root, the element under construction) is local to the    *)
(* thread; the type and its graph are read anew at every statement that    *)
(* names cls.__xml_serializer__.                                           *)
(***************************************************************************)
Idle == [pc |-> "idle", op |-> None, cls |-> 0, arg |-> Nil, root |-> Nil,
         events |-> <<>>, error |-> None, value |-> Nil]

ConcArgs == {NoArgs,
             [NoArgs EXCEPT !.tag = "Root", !.ns = "urn:a",
                            !.nsmap = Some(NsMapX)]}

ConcSchemas ==
    {<<[name |-> "a", desc |-> Some(attr("x", None, NoKwargs))]>>,
     <<[name |-> "a", desc |-> Nil],
       [name |-> "b",
        desc |-> Some(wrapped("w", Some(attr("x", None, NoKwargs)), None, Nil,
                              NoKwargs))]>>}

InitConc ==
    /\ REGISTER_NS_PREFIXES = TRUE
    /\ n_desc = 0
    /\ last_desc = Nil
    /\ last_call = NoCall
    /\ result = NoResult
    /\ n_graphs = 1
    /\ threads = [k \in 1..MaxThreads |-> Idle]
    /\ \E args \in ConcArgs, sc \in ConcSchemas :
         LET c0 == NewClass(ClassNames[2], 0, args, init_subclass(0, args),
                            [PlainShape EXCEPT !.fields = sc])
             b == build_serializer(c0, TRUE, {}, 1)
         IN /\ classes = <<RootXmlModel, [c0 EXCEPT !.xml_serializer = b.xml_serializer]>>
            /\ registry = b.registry

\* The records, trees and texts the threads convert: the records whose
\* fields are all set or all unset, their trees and texts, a tree of the
\* type's tag in a foreign namespace and a text that is no document.
ConcRecords(c) == {r \in Records(c) : \A n, m \in DOMAIN r.values :
                                          r.values[n] = r.values[m]}
Foreign(c) ==
    Elem(QName("urn:other", Val(c.xml_serializer).element_name.tag), Nil)
ConcTrees(c) ==
    {Foreign(c)}
    \cup {Val(to_xml_tree(c, r, FALSE).value) :
              r \in {q \in ConcRecords(c) : \A n \in DOMAIN q.values :
                                                q.values[n] # None}}
ConcTexts(c) ==
    {tostring(t) : t \in ConcTrees(c) \ {Foreign(c)}}
    \cup {Truncated(tostring(Foreign(c)))}

ThreadFrame == <<REGISTER_NS_PREFIXES, registry, n_desc, last_desc, last_call,
                 classes, n_graphs, result>>

Enter(k, op, cls, arg, pc, root) ==
    /\ threads[k].pc = "idle"
    /\ threads' = [threads EXCEPT ![k] = [Idle EXCEPT !.pc = pc, !.op = op,
                                                      !.cls = cls, !.arg = arg,
                                                      !.root = root]]
    /\ UNCHANGED ThreadFrame

\* A thread calls an entry point of the type.
Call(k) ==
    LET cls == Len(classes) IN
    \/ \E root \in ConcTrees(classes[cls]) :
           Enter(k, "from_xml_tree", cls, root, "assert", Some(root))
    \/ \E source \in ConcTexts(classes[cls]) :
           Enter(k, "from_xml", cls, source, "fromstring", Nil)
    \/ \E r \in ConcRecords(classes[cls]), skip_empty \in BOOLEAN :
           Enter(k, "to_xml_tree", cls, [rec |-> r, skip_empty |-> skip_empty],
                 "assert", Nil)
    \/ \E r \in ConcRecords(classes[cls]) :
           Enter(k, "to_xml", cls, [rec |-> r, skip_empty |-> FALSE], "assert", Nil)

Raise(t, error) == [t EXCEPT !.pc = "done", !.error = error, !.value = Nil]

Move(k, t) == threads' = [threads EXCEPT ![k] = t] /\ UNCHANGED ThreadFrame

\* Line 346: etree.fromstring(source).
ParseSource(k) ==
    LET t == threads[k]
        parsed == fromstring(t.arg)
        t1 == [t EXCEPT !.events = Append(@, "etree.fromstring")] IN
    /\ t.pc = "fromstring"
    /\ Move(k, IF IsNil(parsed) THEN Raise(t1, XMLSyntaxError)
               ELSE [t1 EXCEPT !.pc = "assert", !.root = parsed])

\* Lines 326 and 356: assert cls.__xml_serializer__ is not None.
AssertSerializer(k) ==
    LET t == threads[k] IN
    /\ t.pc = "assert"
    /\ Move(k, IF IsNil(classes[t.cls].xml_serializer)
               THEN Raise(t, "AssertionError")
               ELSE [t EXCEPT !.pc = IF t.op \in {"from_xml_tree", "from_xml"}
                                     THEN "match" ELSE "root"])

\* Line 328 as a slip would have it: the local tag compared alone.
root_matches_local(serializer, root) == root.tag.tag = serializer.element_name.tag

\* Line 328: root.tag == cls.__xml_serializer__.element_name.
root_matches(serializer, root) == root.tag = serializer.element_name

\* Lines 328 and 332.
CheckRootTag(k) ==
    LET t == threads[k] IN
    /\ t.pc = "match"
    /\ Move(k, IF root_matches(Val(classes[t.cls].xml_serializer), Val(t.root))
               THEN [t EXCEPT !.pc = "deserialize"]
               ELSE Raise(t, "ParsingError"))

\* Line 329: cls.__xml_serializer__.deserialize(XmlElement.from_native(root)).
Deserialize(k) ==
    LET t == threads[k]
        d == deserialize(Val(classes[t.cls].xml_serializer), from_native(Val(t.root)))
    IN /\ t.pc = "deserialize"
       /\ Move(k, [t EXCEPT !.pc = "done",
                            !.events = @ \o <<"XmlElement.from_native", "deserialize">>,
                            !.error = d.error, !.value = d.value])

\* Line 358: the root element of the call.
CreateRoot(k) ==
    LET t == threads[k]
        ser == Val(classes[t.cls].xml_serializer) IN
    /\ t.pc = "root"
    /\ Move(k, [t EXCEPT !.pc = "serialize", !.events = Append(@, "XmlElement"),
                         !.root = Some(Elem(ser.element_name, ser.nsmap))])

\* Lines 359-365.
Serialize(k) ==
    LET t == threads[k]
        ser == Val(classes[t.cls].xml_serializer) IN
    /\ t.pc = "serialize"
    /\ Move(k, [t EXCEPT !.pc = "to_native", !.events = Append(@, "serialize"),
                         !.root = Some(serialize(ser, Val(t.root),
                                                 to_jsonable_python(t.arg.rec),
                                                 t.arg.skip_empty))])

\* Line 367.
ToNative(k) ==
    LET t == threads[k] IN
    /\ t.pc = "to_native"
    /\ Move(k, [t EXCEPT !.pc = IF t.op = "to_xml" THEN "tostring" ELSE "done",
                         !.events = Append(@, "XmlElement.to_native"),
                         !.value = Some(to_native(Val(t.root), Nil))])

\* Line 378: etree.tostring(self.to_xml_tree(...)).
SerializeToText(k) ==
    LET t == threads[k] IN
    /\ t.pc = "tostring"
    /\ Move(k, [t EXCEPT !.pc = "done", !.events = Append(@, "etree.tostring"),
                         !.value = Some(tostring(Val(t.value)))])

\* The call returns or raises; the thread is free for another.
Return(k) ==
    /\ threads[k].pc = "done"
    /\ Move(k, Idle)

NextConc ==
    \E k \in 1..MaxThreads :
        \/ Call(k)
        \/ ParseSource(k)
        \/ AssertSerializer(k)
        \/ CheckRootTag(k)
        \/ Deserialize(k)
        \/ CreateRoot(k)
        \/ Serialize(k)
        \/ ToNative(k)
        \/ SerializeToText(k)
        \/ Return(k)

SpecConc == InitConc /\ [][NextConc]_vars

(***************************************************************************)
(* What the documentation says of a type, against what the code keeps.     *)
(***************************************************************************)
\* The type's shape still depends on a type parameter: an ordinary generic
\* type with open parameters, or a root type whose root annotation is not
\* concrete.
OpenGeneric(c) ==
    c.parameters /\ (c.root_model => c.root_annotation # "concrete")

Absent(i) == IsNil(classes[i].xml_serializer)

Keys == {"tag", "ns", "nsmap", "ns_attrs", "skip_empty", "search_mode"}

SettingOf(c, key) ==
    CASE key = "tag" -> c.xml_tag
      [] key = "ns" -> c.xml_ns
      [] key = "nsmap" -> c.xml_nsmap
      [] key = "ns_attrs" -> c.xml_ns_attrs
      [] key = "skip_empty" -> c.xml_skip_empty
      [] OTHER -> c.xml_search_mode

DefaultOf(key) ==
    CASE key \in {"tag", "ns"} -> None
      [] key \in {"nsmap", "skip_empty"} -> Nil
      [] key = "ns_attrs" -> FALSE
      [] OTHER -> STRICT

Given(key, x) ==
    IF key \in {"nsmap", "ns_attrs", "skip_empty"} THEN ~IsNil(x) ELSE x # None

\* The value the nearest declaration that gives one gives, the type's own
\* first, and the default when none does.
RECURSIVE Effective(_, _)
Effective(i, key) ==
    IF i = 0 THEN DefaultOf(key)
    ELSE LET x == classes[i].args[key] IN
         IF Given(key, x) THEN (IF key = "ns_attrs" THEN Val(x) ELSE x)
         ELSE Effective(classes[i].parent, key)

Settings(c) == [key \in Keys |-> SettingOf(c, key)]

\* C4: a type with open generic parameters or unresolved forward references
\* has no graph after its serializer is built, and the build never calls
\* the schema compiler.
C4_UnresolvedTypeIsDeferred ==
    \A i \in DOMAIN classes :
        (OpenGeneric(classes[i]) \/ ~classes[i].complete)
        => /\ Absent(i)
           /\ (result.op \in {"declare", "model_rebuild"} /\ result.cls = i)
              => result.events = <<>>

\* C5: a model_rebuild of a type without a graph leaves the graph present
\* when the type is complete by then (references resolved, no open generic
\* parameters), and absent, with no error of the core, when the type is still
\* unresolved.  A rebuild whose compilation the schema compiler rejects is
\* not held against the first half.
C5_RebuildRetriesDeferredCompilation ==
    (result.op = "model_rebuild" /\ Val(result.src).absent)
    => LET c == classes[result.cls]
           resolved == c.complete /\ ~OpenGeneric(c) IN
       /\ (resolved /\ result.error # ModelError) => ~Absent(result.cls)
       /\ ~resolved => (Absent(result.cls)
                        /\ result.error \in {None, "PydanticUndefinedAnnotation"})

\* The type i was rebuilt last and nothing it refers to was defined since.
RebuiltLast(i) ==
    /\ result.op = "model_rebuild" /\ result.cls = i
    /\ classes[i].fwd_defined => classes[i].complete

\* C6: a graph, once present, is never replaced or cleared, by model_rebuild
\* or anything else; as many graphs were created as types have one; and a
\* model_rebuild right after a model_rebuild leaves the graph as it is.
C6_RebuildIsIdempotent ==
    /\ [](n_graphs = Cardinality({i \in DOMAIN classes : ~Absent(i)}))
    /\ [][\A i \in DOMAIN classes :
            /\ ~Absent(i) => classes'[i].xml_serializer = classes[i].xml_serializer
            /\ (RebuiltLast(i) /\ result'.op = "model_rebuild" /\ result'.cls = i)
               => classes'[i].xml_serializer = classes[i].xml_serializer]_vars

\* A type that had its graph was rebuilt, forced, and kept it.
C6_Witness ==
    /\ result.op = "model_rebuild" /\ ~Val(result.src).absent
    /\ result.arg.force /\ ~Absent(result.cls) /\ n_graphs = 1

\* C7: constructing a placement descriptor registers its namespace map if
\* and only if the map is not empty and REGISTER_NS_PREFIXES is on; otherwise
\* the registry stays as it is.  No type needs to exist.
C7_RegistryUpdatedAtDeclaration ==
    [][n_desc' = n_desc + 1
       => LET nsmap == Val(last_desc').nsmap IN
          registry' = IF REGISTER_NS_PREFIXES /\ ~IsNil(nsmap) /\ Val(nsmap) # {}
                      THEN register_nsmap(registry, Val(nsmap))
                      ELSE registry]_vars

\* A descriptor with a namespace map was constructed and its prefix is
\* registered, while no type was declared.
C7_Witness ==
    /\ n_desc > 0 /\ Val(last_desc).nsmap = Some(NsMapX)
    /\ <<"urn:a", "x">> \in registry
    /\ Len(classes) = 1

\* C9 as stated: in every descriptor a declaration helper returns, whatever
\* keyword arguments it was given, wrapped is set only when the location is
\* Wrapped.
C9_WrappedOnlyWhenLocationWrapped ==
    ~IsNil(last_desc)
    => (~IsNil(Val(last_desc).wrapped) => Val(last_desc).location = WRAPPED)

\* C9 amended: the same, for the calls that pass no wrapped keyword through
\* the keyword arguments of attr or element.
C9_WrappedOnlyWhenLocationWrappedUnlessKeyword ==
    (~IsNil(last_desc) /\ ~last_call.kw_wrapped)
    => (~IsNil(Val(last_desc).wrapped) => Val(last_desc).location = WRAPPED)

\* wrapped() returned a descriptor that nests the one constructed before.
C9_Witness ==
    /\ last_call.helper = "wrapped" /\ ~IsNil(last_desc)
    /\ Val(last_desc).location = WRAPPED
    /\ ~IsNil(Val(last_desc).wrapped)
    /\ Val(Val(last_desc).wrapped).location = ATTRIBUTE

\* C10: every setting of a type is the value its own declaration gives, or
\* else its nearest ancestor's, or else the default; and declaring a type
\* changes no setting of an earlier type.
C10_SettingsInherited ==
    /\ [](\A i \in DOMAIN classes, key \in Keys :
            SettingOf(classes[i], key) = Effective(i, key))
    /\ [][\A i \in DOMAIN classes : Settings(classes'[i]) = Settings(classes[i])]_vars

\* A grandchild without a tag of its own has its parent's tag, not its
\* grandparent's, and a child's explicit False overrides its parent's True.
C10_Witness ==
    \E i \in DOMAIN classes :
        LET c == classes[i] IN
        /\ c.args = NoArgs /\ c.parent # 0 /\ classes[c.parent].parent # 0
        /\ LET p == classes[c.parent]
               g == classes[p.parent] IN
           /\ g.xml_tag = "T" /\ g.xml_ns_attrs
           /\ p.args.tag = "U" /\ p.args.ns_attrs = Some(FALSE)
           /\ c.xml_tag = "U" /\ c.xml_ns = "urn:n" /\ ~c.xml_ns_attrs

ConvOps == {"from_xml_tree", "from_xml", "to_xml_tree", "to_xml"}

\* The last call was from_xml_tree on the tree that to_xml_tree, called
\* with its default skip_empty, had just returned for a record of the
\* same type.
RoundTrip ==
    /\ result.op = "from_xml_tree" /\ ~IsNil(result.src)
    /\ Val(result.src).cls = result.cls /\ ~Val(result.src).skip_empty

\* No two fields of the graph occupy the same place of the owning element:
\* the same attribute, or child elements of the same name.
Place(node) == <<node.kind = "Attribute", node.name>>
DistinctPlaces(graph) ==
    \A i, j \in DOMAIN graph.nodes :
        i # j => Place(graph.nodes[i]) # Place(graph.nodes[j])

\* C1 as stated: from_xml_tree(to_xml_tree(r)) is r, field by field, for
\* every schema, and never raises ParsingError.
C1_RoundTrip ==
    RoundTrip => /\ result.error = None
                 /\ result.value = Some(Val(result.src).rec)

\* C1 amended: the round trip never raises ParsingError, and it returns r
\* when no two fields of the schema occupy the same place.
C1_RoundTripDistinctPlaces ==
    RoundTrip
    => /\ result.error # "ParsingError"
       /\ DistinctPlaces(Val(classes[result.cls].xml_serializer))
          => /\ result.error = None
             /\ result.value = Some(Val(result.src).rec)

\* A record with an attribute, a wrapped attribute and an unset element
\* came back from its tree.
C1_Witness ==
    /\ RoundTrip /\ result.error = None
    /\ result.value = Some(Val(result.src).rec)
    /\ LET g == Val(classes[result.cls].xml_serializer) IN
       /\ Len(g.nodes) = 2 /\ DistinctPlaces(g)
       /\ g.nodes[1].kind = "Attribute" /\ g.nodes[2].kind = "Wrapped"
       /\ Val(result.src).rec.values["a"] = "1"
       /\ Val(result.src).rec.values["b"] = "1"

\* C2: on a type with a graph, from_xml_tree and from_xml raise ParsingError,
\* call no deserialize and return nothing when the root's tag and namespace
\* are not the graph's; otherwise they return what the graph's deserialize
\* returns.
C2_RootTagChecked ==
    (/\ result.op \in {"from_xml_tree", "from_xml"}
     /\ ~Absent(result.cls)
     /\ result.op = "from_xml" => ~IsNil(fromstring(result.arg)))
    => LET root == IF result.op = "from_xml" THEN Val(fromstring(result.arg))
                   ELSE result.arg
           ser == Val(classes[result.cls].xml_serializer)
           called == \E k \in DOMAIN result.events : result.events[k] = "deserialize"
       IN IF root.tag = ser.element_name
          THEN /\ called
               /\ result.error = deserialize(ser, root).error
               /\ result.value = deserialize(ser, root).value
          ELSE /\ ~called
               /\ result.error = "ParsingError"
               /\ result.value = Nil

\* A text whose root has the type's tag in another namespace was refused.
C2_Witness ==
    /\ result.op = "from_xml" /\ ~Absent(result.cls)
    /\ result.error = "ParsingError"
    /\ Val(fromstring(result.arg)).tag.tag
           = Val(classes[result.cls].xml_serializer).element_name.tag

\* C3 as stated: while a type has no graph, every conversion entry point
\* fails with the usage fault before it touches any XML or serializer.
C3_AbsentGraphFailsFast ==
    (result.op \in ConvOps /\ Absent(result.cls))
    => (result.error = "AssertionError" /\ result.events = <<>>)

\* C3 amended: while a type has no graph, every conversion entry point
\* fails, returns nothing and calls no serializer; from_xml_tree, to_xml_tree
\* and to_xml fail with the usage fault before anything else, from_xml parses
\* its source first and raises the parser's error when the source is
\* malformed, the usage fault otherwise.  Only a model_rebuild of the type
\* that raises nothing ends this.
C3_AbsentGraphFails ==
    /\ []((result.op \in ConvOps /\ Absent(result.cls))
          => /\ result.value = Nil
             /\ IF result.op = "from_xml"
                THEN /\ result.events = <<"etree.fromstring">>
                     /\ result.error = IF IsNil(fromstring(result.arg))
                                       THEN XMLSyntaxError ELSE "AssertionError"
                ELSE /\ result.events = <<>>
                     /\ result.error = "AssertionError")
    /\ [][\A i \in DOMAIN classes :
            (Absent(i) /\ ~IsNil(classes'[i].xml_serializer))
            => (result'.op = "model_rebuild" /\ result'.cls = i
                /\ result'.error = None)]_vars

\* from_xml on a type whose forward references keep it without a graph
\* parsed a well-formed text and then failed with the usage fault.
C3_Witness ==
    /\ result.op = "from_xml" /\ Absent(result.cls)
    /\ classes[result.cls].fwd_refs
    /\ result.error = "AssertionError"
    /\ result.events = <<"etree.fromstring">>

\* What the call of a thread returns when it runs alone.
Alone(t) ==
    LET c == classes[t.cls] IN
    CASE t.op = "from_xml_tree" -> from_xml_tree(c, t.arg)
      [] t.op = "from_xml" -> from_xml(c, t.arg)
      [] t.op = "to_xml_tree" -> to_xml_tree(c, t.arg.rec, t.arg.skip_empty)
      [] t.op = "to_xml" -> to_xml(c, t.arg.rec, t.arg.skip_empty)

====
